---- MODULE Spec2Model ----
(***************************************************************************)
(* Model of NanoAnalysis/python/process_root_file.py:                      *)
(*   filter_events     - trigger-OR + reference-flag event counting        *)
(*   get_genEventSumw  - generator sum of weights, optionally scaled       *)
(*   getEff            - efficiency point estimate                         *)
(* A string is the sequence of the code points of its characters, so that  *)
(* str.strip() acts on the lines of the trigger file as Python does.       *)
(* Python floats are modelled as exact rationals [num, den] in lowest      *)
(* terms (rounding is not modelled).                                       *)
(***************************************************************************)
EXTENDS Integers, Sequences, FiniteSets, TLC

\* ------------------------------------------------------------------ bounds
MaxLines == 2      \* lines in the trigger file
MaxEvents == 2     \* entries of the Events tree
MaxRuns == 2       \* entries of the Runs tree
MaxEntries == 3    \* small values of Events.GetEntries() in get_genEventSumw
MaxCap == 2        \* small values of maxEntriesPerSample

\* ------------------------------------------------------------ rationals
RECURSIVE GCD(_, _)
GCD(a, b) == IF b = 0 THEN a ELSE GCD(b, a % b)

Abs(x) == IF x < 0 THEN -x ELSE x

\* the number n/d (d # 0) in lowest terms with a positive denominator
Rat(n, d) ==
    LET g == GCD(Abs(n), Abs(d))
        s == IF d < 0 THEN -1 ELSE 1
    IN  [num |-> (s * n) \div g, den |-> (s * d) \div g]

Zero == Rat(0, 1)

RatAdd(p, q) == Rat(p.num * q.den + q.num * p.den, p.den * q.den)

RatMulInt(p, k) == Rat(p.num * k, p.den)

\* p / k for k # 0
RatDivInt(p, k) == Rat(p.num, p.den * k)

\* ------------------------------------------------------------- trigger file
\* the characters str.strip() removes: those for which str.isspace() holds
\* (tab, newline, VT, FF, CR, FS, GS, RS, US, space, NEL, NBSP and the Unicode
\* spaces and separators)
Whitespace ==
    (9..13) \cup (28..32) \cup {133, 160, 5760} \cup (8192..8202)
        \cup {8232, 8233, 8239, 8287, 12288}

RECURSIVE LStrip(_)
LStrip(s) ==
    IF s = <<>> THEN <<>>
    ELSE IF Head(s) \in Whitespace THEN LStrip(Tail(s)) ELSE s

RECURSIVE RStrip(_)
RStrip(s) ==
    IF s = <<>> THEN <<>>
    ELSE IF s[Len(s)] \in Whitespace THEN RStrip(SubSeq(s, 1, Len(s) - 1)) ELSE s

\* str.strip()
Strip(s) == RStrip(LStrip(s))

\* variant: the comprehension without its "if line.strip()" filter
RECURSIVE ReadTriggersKeepBlank(_)
ReadTriggersKeepBlank(f) ==
    IF f = <<>> THEN <<>>
    ELSE <<Strip(Head(f))>> \o ReadTriggersKeepBlank(Tail(f))

\* [line.strip() for line in f if line.strip()]
RECURSIVE ReadTriggers(_)
ReadTriggers(f) ==
    IF f = <<>> THEN <<>>
    ELSE IF Strip(Head(f)) # <<>>
         THEN <<Strip(Head(f))>> \o ReadTriggers(Tail(f))
         ELSE ReadTriggers(Tail(f))

\* "A" and "B"
TrigA == <<65>>
TrigB == <<66>>

\* lines a trigger file is made of: "\n", " \t\n", "A\n" and " B\t\n"
LineSet == { <<10>>, <<32, 9, 10>>, <<65, 10>>, <<32, 66, 9, 10>> }

SeqsUpTo(S, n) == UNION { [1..k -> S] : k \in 0..n }

TriggerFiles == SeqsUpTo(LineSet, MaxLines)

\* ------------------------------------------------------------ event records
\* "HLT_passZZ4l" and "overallEventWeight"
RefName == <<72, 76, 84, 95, 112, 97, 115, 115, 90, 90, 52, 108>>
WeightName == <<111, 118, 101, 114, 97, 108, 108, 69, 118, 101, 110, 116, 87, 101,
                105, 103, 104, 116>>

FieldNames == {TrigA, TrigB, RefName, WeightName}

FieldValues(name) ==
    IF name = WeightName THEN 1..2 ELSE 0..2

\* a record is a mapping from the branches it has to their values
EventRecords ==
    UNION { { e \in [D -> 0..2] :
                \A n \in D : e[n] \in FieldValues(n) } : D \in SUBSET FieldNames }

NoEvent == [n \in {} |-> 0]

\* getattr(event, name): raises AttributeError when the branch is absent
HasAttr(ev, name) == name \in DOMAIN ev

\* variant: getattr(event, trigger, None), an absent branch read as false
RECURSIVE TriggerLoopDefault(_, _, _)
TriggerLoopDefault(ev, trigs, i) ==
    IF i > Len(trigs) THEN "False"
    ELSE IF HasAttr(ev, trigs[i]) /\ ev[trigs[i]] # 0 THEN "True"
    ELSE TriggerLoopDefault(ev, trigs, i + 1)

\* lines 120-124: the OR over the triggers, leaving at the first true one
RECURSIVE TriggerLoop(_, _, _)
TriggerLoop(ev, trigs, i) ==
    IF i > Len(trigs) THEN "False"
    ELSE IF ~HasAttr(ev, trigs[i]) THEN "AttributeError"
    ELSE IF ev[trigs[i]] # 0 THEN "True"
    ELSE TriggerLoop(ev, trigs, i + 1)

\* ---------------------------------------------------------------- getEff
\* variant: a zero total answered with a sentinel efficiency of 0
getEffSentinel(tot, sel) ==
    IF tot = 0 THEN [status |-> "ok", eff |-> Zero]
    ELSE [status |-> "ok", eff |-> Rat(sel, tot)]

\* lines 34-38; the interval values come from ROOT's TEfficiency and are not
\* part of the source: the model keeps the point estimate and the outcome
getEff(tot, sel) ==
    IF tot = 0 THEN [status |-> "ZeroDivisionError", eff |-> Zero]
    ELSE [status |-> "ok", eff |-> Rat(sel, tot)]

NoStats == [total_events |-> -1, passed_events |-> -1, percentage |-> Zero,
            weighted_events |-> -1]

\* -------------------------------------------------------- get_genEventSumw
\* maxEntriesPerSample: <<>> is None, <<m>> is the integer m
None == <<>>

\* variants of the scaling block: the comparison written ">="; the sum scaled
\* whenever a cap is given; nEntries left as it was after scaling
ScaleGreaterEqual(sumw, n, cap) ==
    IF cap = None THEN [status |-> "ok", sumw |-> sumw, nEntries |-> n]
    ELSE IF n >= cap[1]
         THEN IF n = 0
              THEN [status |-> "ZeroDivisionError", sumw |-> sumw, nEntries |-> n]
              ELSE [status |-> "ok",
                    sumw |-> RatDivInt(RatMulInt(sumw, cap[1]), n),
                    nEntries |-> cap[1]]
         ELSE [status |-> "ok", sumw |-> sumw, nEntries |-> n]

ScaleAlways(sumw, n, cap) ==
    IF cap = None THEN [status |-> "ok", sumw |-> sumw, nEntries |-> n]
    ELSE IF n = 0
         THEN [status |-> "ZeroDivisionError", sumw |-> sumw, nEntries |-> n]
         ELSE [status |-> "ok",
               sumw |-> RatDivInt(RatMulInt(sumw, cap[1]), n),
               nEntries |-> cap[1]]

ScaleKeepEntries(sumw, n, cap) ==
    IF cap = None THEN [status |-> "ok", sumw |-> sumw, nEntries |-> n]
    ELSE IF n > cap[1]
         THEN IF n = 0
              THEN [status |-> "ZeroDivisionError", sumw |-> sumw, nEntries |-> n]
              ELSE [status |-> "ok",
                    sumw |-> RatDivInt(RatMulInt(sumw, cap[1]), n),
                    nEntries |-> n]
         ELSE [status |-> "ok", sumw |-> sumw, nEntries |-> n]

\* lines 25-32: the returned sum and the local nEntries after the scaling block
Scale(sumw, n, cap) ==
    IF cap = None THEN [status |-> "ok", sumw |-> sumw, nEntries |-> n]
    ELSE IF n > cap[1]
         THEN IF n = 0
              THEN [status |-> "ZeroDivisionError", sumw |-> sumw, nEntries |-> n]
              ELSE [status |-> "ok",
                    sumw |-> RatDivInt(RatMulInt(sumw, cap[1]), n),
                    nEntries |-> cap[1]]
         ELSE [status |-> "ok", sumw |-> sumw, nEntries |-> n]

\* entries of the Runs tree: (genEventCount, genEventSumw), each with the
\* number of bytes runs.GetEntry reads for it (0: nothing read)
RunSet ==
    { [genEventCount |-> r[1], genEventSumw |-> Rat(r[2], 1), nbytes |-> b] :
        r \in { <<1, -2>>, <<1, -1>>, <<2, 1>>, <<0, 0>>, <<1000, 950>> },
        b \in {0, 16} }

\* runs.GetEntry(iRun), for iRun < nRuns
GetEntry(rs, i) == rs[i + 1].nbytes

RunLists == SeqsUpTo(RunSet, MaxRuns)

EntryCounts == (0..MaxEntries) \cup {1000}

CapValues == {None} \cup { <<m>> : m \in (-1..MaxCap) \cup {500} }

NoReturn == [status |-> "none", sumw |-> Zero]

NoPrint == [gen |-> -1, sumw |-> Zero]

VARIABLES
    \* filter_events
    trigger_file, fileOk, treeOk, nTree,
    pc, triggers, event, consumed,
    total_events, passed_events_count, weighted_events, percentage,
    outcome, result,
    \* observer of the consumed stream
    nSelected, sumSelected, allFields,
    \* get_genEventSumw
    runs, events_entries, maxEntriesPerSample,
    npc, iRun, genEventCount, genEventSumw, nEntries, printed, ret,
    call, first

fvars == <<trigger_file, fileOk, treeOk, nTree, pc, triggers, event, consumed,
           total_events, passed_events_count, weighted_events, percentage,
           outcome, result, nSelected, sumSelected, allFields>>

nvars == <<runs, events_entries, maxEntriesPerSample, npc, iRun, genEventCount,
           genEventSumw, nEntries, printed, ret, call, first>>

vars == <<fvars, nvars>>

\* the selection predicate of a record whose configured fields all exist
ConfiguredFields(trigs) == { trigs[i] : i \in 1..Len(trigs) } \cup {RefName, WeightName}

Selected(ev, trigs) ==
    /\ \E i \in 1..Len(trigs) : ev[trigs[i]] # 0
    /\ ev[RefName] = 1

\* ------------------------------------------------------------ filter_events
FilterStart ==
    /\ pc = "read"
    /\ triggers = <<>>
    /\ event = NoEvent
    /\ consumed = 0
    /\ total_events = 0
    /\ passed_events_count = 0
    /\ weighted_events = 0
    /\ percentage = Zero
    /\ outcome = "running"
    /\ result = NoStats
    /\ nSelected = 0
    /\ sumSelected = 0
    /\ allFields = TRUE

NormStart ==
    /\ npc = "agg"
    /\ iRun = 0
    /\ genEventCount = 0
    /\ genEventSumw = Zero
    /\ nEntries = events_entries
    /\ printed = NoPrint
    /\ ret = NoReturn
    /\ call = 1
    /\ first = [sumw |-> Zero, entries |-> 0, ret |-> Zero, effective |-> 0]

Init ==
    /\ trigger_file \in TriggerFiles
    /\ fileOk \in BOOLEAN
    /\ treeOk \in BOOLEAN
    /\ nTree \in 0..MaxEvents
    /\ FilterStart
    /\ runs = <<>>
    /\ events_entries = 0
    /\ maxEntriesPerSample = None
    /\ NormStart

Raise(err) ==
    /\ pc' = "done"
    /\ outcome' = err

\* lines 91-97
ReadTriggerFile ==
    /\ pc = "read"
    /\ triggers' = ReadTriggers(trigger_file)
    /\ IF triggers' = <<>>
       THEN Raise("ValueError")
       ELSE pc' = "open" /\ outcome' = outcome
    /\ UNCHANGED <<trigger_file, fileOk, treeOk, nTree, event, consumed,
                   total_events, passed_events_count, weighted_events,
                   percentage, result, nSelected, sumSelected, allFields>>
    /\ UNCHANGED nvars

\* lines 99-115
OpenTree ==
    /\ pc = "open"
    /\ IF fileOk /\ treeOk
       THEN pc' = "loop" /\ outcome' = outcome
       ELSE pc' = "done" /\ outcome' = "None"
    /\ UNCHANGED <<trigger_file, fileOk, treeOk, nTree, triggers, event, consumed,
                   total_events, passed_events_count, weighted_events,
                   percentage, result, nSelected, sumSelected, allFields>>
    /\ UNCHANGED nvars

\* variants of the loop body: the reference flag tested for truth instead of
\* "== 1"; total_events counted only for records passing a trigger; the
\* trigger loop without its break, counting once per true trigger
EventBodyWith(ev, refSelects, countAll, inc) ==
    LET any == TriggerLoop(ev, triggers, 1)
    IN  /\ total_events' = IF countAll \/ any = "True" THEN total_events + 1
                                                         ELSE total_events
        /\ IF any = "AttributeError" \/ (any = "True" /\ ~HasAttr(ev, RefName))
           THEN /\ Raise("AttributeError")
                /\ UNCHANGED <<passed_events_count, weighted_events>>
           ELSE IF any = "False" \/ ~refSelects
           THEN /\ UNCHANGED <<pc, outcome, passed_events_count, weighted_events>>
           ELSE /\ passed_events_count' = passed_events_count + inc
                /\ IF HasAttr(ev, WeightName)
                   THEN /\ weighted_events' = weighted_events + ev[WeightName]
                        /\ UNCHANGED <<pc, outcome>>
                   ELSE /\ Raise("AttributeError")
                        /\ UNCHANGED weighted_events

EventBodyTruthy(ev) ==
    EventBodyWith(ev, HasAttr(ev, RefName) /\ ev[RefName] # 0, TRUE, 1)

EventBodyCountPassed(ev) ==
    EventBodyWith(ev, HasAttr(ev, RefName) /\ ev[RefName] = 1, FALSE, 1)

EventBodyNoBreak(ev) ==
    EventBodyWith(ev, HasAttr(ev, RefName) /\ ev[RefName] = 1, TRUE,
                  Cardinality({ i \in 1..Len(triggers) :
                                  HasAttr(ev, triggers[i]) /\ ev[triggers[i]] # 0 }))

\* lines 118-127 for one record
EventBody(ev) ==
    LET any == TriggerLoop(ev, triggers, 1)
    IN  /\ total_events' = total_events + 1
        /\ IF any = "AttributeError"
           THEN /\ Raise("AttributeError")
                /\ UNCHANGED <<passed_events_count, weighted_events>>
           ELSE IF any = "False"
           THEN /\ UNCHANGED <<pc, outcome, passed_events_count, weighted_events>>
           ELSE IF ~HasAttr(ev, RefName)
           THEN /\ Raise("AttributeError")
                /\ UNCHANGED <<passed_events_count, weighted_events>>
           ELSE IF ev[RefName] # 1
           THEN /\ UNCHANGED <<pc, outcome, passed_events_count, weighted_events>>
           ELSE /\ passed_events_count' = passed_events_count + 1
                /\ IF HasAttr(ev, WeightName)
                   THEN /\ weighted_events' = weighted_events + ev[WeightName]
                        /\ UNCHANGED <<pc, outcome>>
                   ELSE /\ Raise("AttributeError")
                        /\ UNCHANGED weighted_events

\* line 117: the iterator yields the next record of the tree
NextEvent ==
    /\ pc = "loop"
    /\ consumed < nTree
    /\ \E ev \in EventRecords :
        /\ event' = ev
        /\ consumed' = consumed + 1
        /\ EventBody(ev)
        /\ allFields' = (allFields /\ ConfiguredFields(triggers) \subseteq DOMAIN ev)
        /\ IF ConfiguredFields(triggers) \subseteq DOMAIN ev /\ Selected(ev, triggers)
           THEN /\ nSelected' = nSelected + 1
                /\ sumSelected' = sumSelected + ev[WeightName]
           ELSE UNCHANGED <<nSelected, sumSelected>>
    /\ UNCHANGED <<trigger_file, fileOk, treeOk, nTree, triggers, percentage, result>>
    /\ UNCHANGED nvars

\* line 117: the iterator is exhausted
EndOfTree ==
    /\ pc = "loop"
    /\ consumed = nTree
    /\ pc' = "stats"
    /\ UNCHANGED <<trigger_file, fileOk, treeOk, nTree, triggers, event, consumed,
                   total_events, passed_events_count, weighted_events,
                   percentage, outcome, result, nSelected, sumSelected, allFields>>
    /\ UNCHANGED nvars

\* line 131
Percentage(passed, total) ==
    IF total > 0 THEN RatMulInt(Rat(passed, total), 100) ELSE Zero

\* lines 130-133
ComputeStats ==
    /\ pc = "stats"
    /\ percentage' = Percentage(passed_events_count, total_events)
    /\ IF getEff(total_events, passed_events_count).status = "ok"
       THEN pc' = "return" /\ outcome' = outcome
       ELSE Raise(getEff(total_events, passed_events_count).status)
    /\ UNCHANGED <<trigger_file, fileOk, treeOk, nTree, triggers, event, consumed,
                   total_events, passed_events_count, weighted_events,
                   result, nSelected, sumSelected, allFields>>
    /\ UNCHANGED nvars

\* lines 134-149
ReturnStats ==
    /\ pc = "return"
    /\ result' = [total_events |-> total_events,
                  passed_events |-> passed_events_count,
                  percentage |-> percentage,
                  weighted_events |-> weighted_events]
    /\ pc' = "done"
    /\ outcome' = "returned"
    /\ UNCHANGED <<trigger_file, fileOk, treeOk, nTree, triggers, event, consumed,
                   total_events, passed_events_count, weighted_events,
                   percentage, nSelected, sumSelected, allFields>>
    /\ UNCHANGED nvars

Next ==
    \/ ReadTriggerFile
    \/ OpenTree
    \/ NextEvent
    \/ EndOfTree
    \/ ComputeStats
    \/ ReturnStats

Spec == Init /\ [][Next]_vars

\* -------------------------------------------------------- get_genEventSumw
InitNorm ==
    /\ trigger_file = <<>>
    /\ fileOk = TRUE
    /\ treeOk = TRUE
    /\ nTree = 0
    /\ FilterStart
    /\ runs \in RunLists
    /\ events_entries \in EntryCounts
    /\ maxEntriesPerSample \in CapValues
    /\ NormStart

\* lines 19-22: one pass of the loop over the Runs tree
AggregateRun ==
    /\ npc = "agg"
    /\ iRun < Len(runs) /\ GetEntry(runs, iRun) # 0
    /\ genEventCount' = genEventCount + runs[iRun + 1].genEventCount
    /\ genEventSumw' = RatAdd(genEventSumw, runs[iRun + 1].genEventSumw)
    /\ iRun' = iRun + 1
    /\ UNCHANGED <<runs, events_entries, maxEntriesPerSample, npc, nEntries,
                   printed, ret, call, first>>
    /\ UNCHANGED fvars

\* lines 19 and 23: the loop ends and the totals are printed
EndAggregate ==
    /\ npc = "agg"
    /\ ~(iRun < Len(runs) /\ GetEntry(runs, iRun) # 0)
    /\ printed' = [gen |-> genEventCount, sumw |-> genEventSumw]
    /\ npc' = "scale"
    /\ UNCHANGED <<runs, events_entries, maxEntriesPerSample, iRun, genEventCount,
                   genEventSumw, nEntries, ret, call, first>>
    /\ UNCHANGED fvars

\* lines 25-32
ScaleAndReturn ==
    /\ npc = "scale"
    /\ LET r == Scale(genEventSumw, nEntries, maxEntriesPerSample)
       IN  /\ genEventSumw' = r.sumw
           /\ nEntries' = r.nEntries
           /\ ret' = IF r.status = "ok"
                     THEN [status |-> "returned", sumw |-> r.sumw]
                     ELSE [status |-> r.status, sumw |-> Zero]
    /\ npc' = "done"
    /\ UNCHANGED <<runs, events_entries, maxEntriesPerSample, iRun, genEventCount,
                   printed, call, first>>
    /\ UNCHANGED fvars

\* lines 6-17 for a second call with the same cap, on a dataset whose Runs
\* tree sums to the value the first call returned and whose Events tree has
\* the entry count the first call ended with
CallAgain ==
    /\ npc = "done"
    /\ call = 1
    /\ ret.status = "returned"
    /\ maxEntriesPerSample # None
    /\ nEntries >= 0
    /\ first' = [sumw |-> printed.sumw, entries |-> events_entries,
                 ret |-> ret.sumw, effective |-> nEntries]
    /\ runs' = <<[genEventCount |-> genEventCount, genEventSumw |-> ret.sumw,
                  nbytes |-> 16]>>
    /\ events_entries' = nEntries
    /\ call' = 2
    /\ npc' = "agg"
    /\ iRun' = 0
    /\ genEventCount' = 0
    /\ genEventSumw' = Zero
    /\ printed' = NoPrint
    /\ ret' = NoReturn
    /\ UNCHANGED <<maxEntriesPerSample, nEntries>>
    /\ UNCHANGED fvars

NextNorm ==
    \/ AggregateRun
    \/ EndAggregate
    \/ ScaleAndReturn
    \/ CallAgain

SpecNorm == InitNorm /\ [][NextNorm]_vars

\* ------------------------------------------------------------------ claims
ScanStarted == pc \in {"loop", "stats", "return", "done"} /\ outcome # "ValueError"
                 /\ outcome # "None"

\* C1: over a stream whose configured fields all exist, a record is counted as
\* selected exactly when some configured trigger is true and its reference
\* flag equals 1: passed_events_count is the number of such records and
\* weighted_events the sum of their weights, also in the returned result.
C1_Selected ==
    allFields =>
        /\ outcome # "AttributeError"
        /\ passed_events_count = nSelected
        /\ weighted_events = sumSelected
        /\ outcome = "returned" =>
            /\ result.passed_events = nSelected
            /\ result.weighted_events = sumSelected

\* a returned scan of two records: one selected, the last one with a true
\* trigger and a reference flag of 2, not selected
C1_Witness ==
    /\ outcome = "returned"
    /\ allFields
    /\ total_events = 2
    /\ nSelected = 1
    /\ result.passed_events = 1
    /\ TriggerLoop(event, triggers, 1) = "True"
    /\ event[RefName] = 2

\* C8: after a full scan of a stream of nTree records whose configured fields
\* all exist, total_events = nTree: each record is counted exactly once.
C8_TotalSeen ==
    (allFields /\ pc \in {"stats", "return", "done"} /\ ScanStarted) =>
        /\ consumed = nTree
        /\ total_events = nTree
        /\ outcome = "returned" => result.total_events = nTree

\* two records scanned, neither selected
C8_Witness ==
    /\ outcome = "returned"
    /\ allFields
    /\ nTree = 2
    /\ result.total_events = 2
    /\ result.passed_events = 0

\* C9: at every point of a scan 0 <= passed_events_count <= total_events, and
\* neither counter ever decreases.
C9_Counters ==
    /\ [](0 <= passed_events_count /\ passed_events_count <= total_events)
    /\ [][passed_events_count' >= passed_events_count
            /\ total_events' >= total_events]_vars

\* mid-scan, after a selected and an unselected record
C9_Witness ==
    /\ pc = "loop"
    /\ total_events = 2
    /\ passed_events_count = 1

\* the first trigger lookup of record ev that finds its branch absent is
\* reached: every trigger before it is present and false
ReachesAbsent(ev, trigs) ==
    \E k \in 1..Len(trigs) :
        /\ ~HasAttr(ev, trigs[k])
        /\ \A j \in 1..(k - 1) : HasAttr(ev, trigs[j]) /\ ev[trigs[j]] = 0

\* an absent trigger of record ev stands behind a present, true one
AbsentBehindTrue(ev, trigs) ==
    \E k \in 1..Len(trigs) :
        /\ HasAttr(ev, trigs[k]) /\ ev[trigs[k]] # 0
        /\ \A j \in 1..(k - 1) : HasAttr(ev, trigs[j]) /\ ev[trigs[j]] = 0
        /\ \E m \in (k + 1)..Len(trigs) : ~HasAttr(ev, trigs[m])

\* C2 as stated: a record lacking any configured trigger makes the scan fail
\* with a missing-field error, also when an earlier trigger of the list is
\* true for that record.
C2_AbsentAlwaysFails ==
    (ScanStarted /\ consumed > 0
       /\ \E i \in 1..Len(triggers) : ~HasAttr(event, triggers[i]))
    => outcome = "AttributeError"

\* C2 amended: a record lacking a configured trigger makes the scan fail with a
\* missing-field error when no trigger earlier in the list is true for it, and
\* then nothing is returned; behind a true trigger the absent one is not
\* looked up, and a record with its reference flag and weight is counted
\* without error.
C2_AbsentFailsUnlessShortCircuit ==
    (ScanStarted /\ consumed > 0) =>
        /\ ReachesAbsent(event, triggers) =>
            /\ outcome = "AttributeError"
            /\ pc = "done"
            /\ result = NoStats
        /\ (AbsentBehindTrue(event, triggers)
              /\ HasAttr(event, RefName) /\ HasAttr(event, WeightName)) =>
            /\ outcome # "AttributeError"
            /\ total_events = consumed

\* the scan stopped on a record whose second trigger is absent, its first false
C2_Witness ==
    /\ outcome = "AttributeError"
    /\ Len(triggers) = 2
    /\ HasAttr(event, triggers[1])
    /\ event[triggers[1]] = 0
    /\ ~HasAttr(event, triggers[2])

\* C3: getEff with a total of 0 ends in a division by zero and returns no
\* value; a scan of an empty tree therefore ends in that error at line 133,
\* after the guarded percentage was set to 0, and returns no statistics.
C3_ZeroTotal ==
    /\ \A sel \in 0..MaxEvents : getEff(0, sel).status = "ZeroDivisionError"
    /\ (pc = "return" \/ outcome = "returned") => total_events > 0
    /\ (pc = "done" /\ ScanStarted /\ nTree = 0) =>
        /\ outcome = "ZeroDivisionError"
        /\ total_events = 0
        /\ percentage = Zero
        /\ result = NoStats

\* the scan of an empty tree has ended in the division by zero
C3_Witness ==
    /\ pc = "done"
    /\ nTree = 0
    /\ triggers # <<>>
    /\ outcome = "ZeroDivisionError"
    /\ result = NoStats

\* every line of the file is made of whitespace only
AllBlank(file) ==
    \A i \in 1..Len(file) : \A j \in 1..Len(file[i]) : file[i][j] \in Whitespace

\* C7: a trigger file that is empty or holds only blank lines makes
\* filter_events fail with ValueError before the tree is opened: no record is
\* consumed, no counter is incremented and nothing is returned.
C7_EmptyTriggers ==
    (pc # "read" /\ AllBlank(trigger_file)) =>
        /\ outcome = "ValueError"
        /\ pc = "done"
        /\ consumed = 0
        /\ total_events = 0
        /\ passed_events_count = 0
        /\ weighted_events = 0
        /\ result = NoStats

\* the read of a file of two blank lines, over a tree with records, has failed
C7_Witness ==
    /\ outcome = "ValueError"
    /\ Len(trigger_file) = 2
    /\ AllBlank(trigger_file)
    /\ fileOk /\ treeOk
    /\ nTree > 0

\* ------------------------------------------------- claims, get_genEventSumw
Capped == maxEntriesPerSample # None

\* the sum of the genEventSumw of the runs the loop reads, those before the
\* first one GetEntry reads nothing of, as an unreduced fraction
RECURSIVE RunsSum(_)
RunsSum(rs) ==
    IF rs = <<>> \/ Head(rs).nbytes = 0 THEN <<0, 1>>
    ELSE LET t == RunsSum(Tail(rs))
             h == Head(rs).genEventSumw
         IN  <<h.num * t[2] + t[1] * h.den, h.den * t[2]>>

\* the value p is the fraction q[1] / q[2]
SameValue(p, q) == p.num * q[2] = q[1] * p.den

\* C4 as stated: with a cap given and an Events tree of zero entries the call
\* fails and returns no sum of weights.
C4_ZeroEntriesFails ==
    (npc = "done" /\ Capped /\ events_entries = 0) => ret.status # "returned"

\* C4 amended: with a cap given and zero entries the call fails, with a
\* division by zero, only for a negative cap; for a cap >= 0 the comparison
\* 0 > cap is false and the aggregated sum is returned unchanged.
C4_ZeroEntriesReturnsUnlessNegativeCap ==
    (npc = "done" /\ Capped /\ events_entries = 0) =>
        IF maxEntriesPerSample[1] >= 0
        THEN /\ ret.status = "returned"
             /\ ret.sumw = printed.sumw
             /\ SameValue(ret.sumw, RunsSum(runs))
        ELSE /\ ret.status = "ZeroDivisionError"
             /\ ret.sumw = Zero

\* a capped call on a dataset of zero entries has returned a non-zero sum
C4_Witness ==
    /\ npc = "done"
    /\ call = 1
    /\ Capped
    /\ events_entries = 0
    /\ ret.status = "returned"
    /\ ret.sumw.num # 0

\* the aggregated sum is the sum of the runs read, and it is returned
\* unchanged without a cap or with entries <= cap
C5_Unchanged ==
    /\ SameValue(printed.sumw, RunsSum(runs))
    /\ (~Capped \/ (Capped /\ events_entries <= maxEntriesPerSample[1])) =>
        /\ ret.status = "returned"
        /\ ret.sumw = printed.sumw

\* the call has returned the aggregated sum times cap / entries
ReturnedScaled ==
    /\ ret.status = "returned"
    /\ ret.sumw.num * events_entries
         = printed.sumw.num * maxEntriesPerSample[1] * ret.sumw.den

\* C5 as stated: the aggregated sum is returned unchanged without a cap or with
\* entries <= cap, and times cap / entries whenever entries > cap; a negative
\* sum stays negative in both branches.
C5_ScaledSignKept ==
    npc = "done" =>
        /\ C5_Unchanged
        /\ (Capped /\ events_entries > maxEntriesPerSample[1]) => ReturnedScaled
        /\ (ret.status = "returned" /\ printed.sumw.num < 0) => ret.sumw.num < 0

\* C5 amended: unchanged without a cap or with entries <= cap; with
\* entries > cap the sum times cap / entries is returned when entries # 0,
\* and with zero entries (a negative cap) the call ends in a division by zero
\* and returns nothing; a negative sum stays negative in the unscaled branch,
\* and in the scaled branch when the cap is > 0 (a cap of 0 gives 0, a negative
\* cap a positive sum).  Sumw 950 over 1000 entries with a cap of 500 gives 475.
C5_ScaledSignKeptPositiveCap ==
    npc = "done" =>
        /\ C5_Unchanged
        /\ (Capped /\ events_entries > maxEntriesPerSample[1]) =>
            IF events_entries # 0
            THEN ReturnedScaled
            ELSE /\ ret.status = "ZeroDivisionError"
                 /\ ret.sumw = Zero
        /\ (ret.status = "returned" /\ printed.sumw.num < 0
              /\ (~Capped \/ events_entries <= maxEntriesPerSample[1]
                    \/ maxEntriesPerSample[1] > 0))
            => ret.sumw.num < 0
        /\ (printed.sumw = [num |-> 950, den |-> 1] /\ events_entries = 1000
              /\ maxEntriesPerSample = <<500>>)
            => ret = [status |-> "returned", sumw |-> [num |-> 475, den |-> 1]]

\* a negative sum, -2 over 3 entries, scaled by a cap of 2 to -4/3 in a first
\* call on two runs
C5_Witness ==
    /\ npc = "done"
    /\ call = 1
    /\ iRun = 2
    /\ printed.sumw = [num |-> -2, den |-> 1]
    /\ events_entries = 3
    /\ maxEntriesPerSample = <<2>>
    /\ ret = [status |-> "returned", sumw |-> [num |-> -4, den |-> 3]]

\* C6: after a call with entries n > cap m > 0, a second call on the scaled sum
\* with the entry count the first call ended with, which is m, and the same
\* cap returns the scaled sum unchanged.
C6_Idempotent ==
    (call = 2 /\ first.entries > maxEntriesPerSample[1]
       /\ maxEntriesPerSample[1] > 0) =>
        /\ first.effective = maxEntriesPerSample[1]
        /\ events_entries = maxEntriesPerSample[1]
        /\ npc = "done" =>
            /\ ret.status = "returned"
            /\ ret.sumw = first.ret

\* the second call on a sum scaled from -2 over 3 entries to a cap of 2
C6_Witness ==
    /\ call = 2
    /\ npc = "done"
    /\ first.sumw = [num |-> -2, den |-> 1]
    /\ first.entries = 3
    /\ maxEntriesPerSample = <<2>>
    /\ first.ret = [num |-> -4, den |-> 3]
    /\ ret = [status |-> "returned", sumw |-> [num |-> -4, den |-> 3]]

====
